---- MODULE Spec2Model ----
(***************************************************************************)
(* The UI scene graph and event dispatch of utils/ui.py: the Canvas and    *)
(* EventManager registries, the Graphic parent chain, and the Button,      *)
(* CheckBox and InputBox state machines; with them the state stack of      *)
(* utils/state.py, JsonSave of utils/json_save.py, Circle of               *)
(* utils/shape.py and Math of utils/math.py.                               *)
(*                                                                         *)
(* The program state is kept in one variable per field; every method of    *)
(* the source is a pure operator from a state record to a state record,    *)
(* and every action applies one public operation to the current state.     *)
(* User callbacks are opaque: a call is recorded in `calls` together with  *)
(* its arguments and with the fields of the calling widget at that moment. *)
(***************************************************************************)
EXTENDS Integers, Sequences, FiniteSets, TLC

\* ------------------------------------------------------------ bounds
MaxObjs == 3        \* objects constructed in one run
MaxText == 2        \* characters held by an InputBox
MaxBatch == 2       \* events drained by one handle_events call
MaxFuncs == 2       \* free-form callbacks registered
MaxList == 2        \* length of a list given to update_managed_objects
MaxStates == 2      \* State objects that share the state stack
MaxStack == 3       \* states held by the state stack
MaxTints == 2       \* fills a bitmap has taken
MantissaBits == 3   \* significant bits a float keeps (53 in the program)
MaxChildren == 2    \* entries of one panel's child_elements

\* ------------------------------------------------------------ values
None == 0           \* Python's None as an object reference
NoneCb == "None"    \* Python's None as a callable
Ids == 1..MaxObjs

InteractiveKinds == {"Button", "CheckBox", "InputBox"}
ButtonKinds == {"Button", "CheckBox"}

\* The nine anchors of class Alignment
Alignments == {"topleft", "bottomleft", "topright", "bottomright", "midtop",
               "midleft", "midbottom", "midright", "center"}

\* Pointer positions used as inputs: inside every default rectangle, inside
\* the Button rectangle only (on the lower edge of the CheckBox rectangle and
\* below the InputBox), and outside all of them.
Points == {<<10, 10>>, <<10, 50>>, <<200, 10>>}
Origin == <<0, 0>>

LEFT == 1           \* pygame's index of the left mouse button
MouseButtons == {LEFT, 3}
Chars == {"a", "b"}
Keys == {"K_RETURN", "K_BACKSPACE"} \cup Chars

NoEvent == [type |-> "NONE", button |-> 0, pos |-> Origin, key |-> "", unicode |-> <<>>]
MouseEvent(t, b, p) == [NoEvent EXCEPT !.type = t, !.button = b, !.pos = p]
KeyEvent(k) == [NoEvent EXCEPT !.type = "KEYDOWN", !.key = k,
                !.unicode = IF k \in Chars THEN <<k>>
                            ELSE IF k = "K_RETURN" THEN <<"CR">> ELSE <<"BS">>]
QuitEvent == [NoEvent EXCEPT !.type = "QUIT"]

MouseEvents == {MouseEvent(t, b, p) : t \in {"MOUSEBUTTONDOWN", "MOUSEBUTTONUP"},
                                      b \in MouseButtons, p \in Points}
KeyEvents == {KeyEvent(k) : k \in Keys}
Events == MouseEvents \cup KeyEvents \cup {QuitEvent}

\* A pygame.Surface: the bitmap it was made from, its size, and the colors it
\* was filled with under BLEND_RGBA_MULT, in order. transform.scale gives a
\* surface of the new size and keeps the tints (every pixel of the result is a
\* pixel of its argument).
NoSize == <<>>      \* None as a size
NoSurface == [bitmap |-> "", size |-> NoSize, tints |-> <<>>]
Bitmap(b) == [bitmap |-> b, size |-> <<64, 64>>, tints |-> <<>>]

\* (255, 255, 255): the default color_tint of UiImage and the default color of
\* Button; multiplying by it leaves every pixel as it is
White == {"white", "color"}
TintColors == {"white", "red"}

StateIds == 1..MaxStates

\* Python values handled by JsonSave: None, an int n, a list or a tuple of n
\* ones, and a dict from JsonKeys to such values. Missing marks a key without an
\* entry.
JsonKeys == {"Score", "Name"}
Paths == {"f.json"}
Value(t, n) == [type |-> t, n |-> n, items |-> <<>>]
PyNone == Value("NoneType", 0)
Missing == Value("missing", 0)
PyInt(n) == Value("int", n)
Dict(items) == [type |-> "dict", n |-> 0, items |-> items]
EmptyDict == Dict([k \in JsonKeys |-> Missing])

\* A file: absent, or the text it holds. A text is the JSON document it
\* encodes, up to white space and the order of keys, or it is empty or is
\* something else no JSON parser accepts.
File(k, j) == [kind |-> k, json |-> j]
Absent == File("absent", Missing)
EmptyFile == File("empty", Missing)
Garbage == File("garbage", Missing)
Text(j) == File("json", j)

Range(f) == {f[i] : i \in DOMAIN f}
SeqsUpTo(S, n) == UNION {[1..k -> S] : k \in 0..n}

\* ------------------------------------------------------------ state
VARIABLES
    kind,              \* class of each object ("unset" before construction)
    visible,           \* Graphic._visible
    parent,            \* Graphic.parent
    child_elements,    \* Panel.child_elements
    graphic_elements,  \* Canvas.graphic_elements
    graphic_events,    \* EventManager.graphic_events
    funcs,             \* EventManager.funcs
    on_quit,           \* EventManager.on_quit
    rect,              \* Button.rect / InputBox.rect, <<x, y, w, h>>
    func,              \* Button.func
    label,             \* Button.label
    label_alignment,   \* Button.label_alignment
    anchor,            \* Label.anchor
    disabled,          \* Button.disabled
    pressed,           \* Button.pressed
    current_color,     \* Button.current_color
    is_on,             \* CheckBox.is_on
    active,            \* InputBox.active
    text,              \* Label.text
    image,             \* Label.image: the text the image was rendered from
    border_color,      \* InputBox.border_color
    submit_on_return,  \* InputBox.submit_on_return
    handlers,          \* InputBox.on_value_change/on_delete/on_submit/on_select that are set
    button_image,      \* Button.button_image
    size,              \* UiImage.size
    image_surface,     \* UiImage.image_surface
    og_image_surface,  \* UiImage.og_image_surface
    state_stack,       \* the list every State holds as state_stack
    prev_state,        \* State.prev_state
    files,             \* the file at each path: its text, or that it is absent
    position,          \* Circle.position, <<x, y>>
    returned,          \* value the last operation returned
    mouse_pos,         \* pygame.mouse.get_pos()
    calls,             \* calls made by the last operation, in order
    raised,            \* exception the last operation ended with
    exited,            \* sys.exit() was called
    op                 \* the last operation and its arguments

vars == <<kind, visible, parent, child_elements, graphic_elements, graphic_events,
          funcs, on_quit, rect, func, label, label_alignment, anchor, disabled,
          pressed, current_color, is_on, active, text, image, border_color,
          submit_on_return, handlers, button_image, size, image_surface,
          og_image_surface, state_stack, prev_state, files, position, returned,
          mouse_pos, calls, raised, exited, op>>

\* The current state as one record
S == [kind |-> kind, visible |-> visible, parent |-> parent,
      child_elements |-> child_elements, graphic_elements |-> graphic_elements,
      graphic_events |-> graphic_events, funcs |-> funcs, on_quit |-> on_quit,
      rect |-> rect, func |-> func, label |-> label,
      label_alignment |-> label_alignment, anchor |-> anchor,
      disabled |-> disabled, pressed |-> pressed, current_color |-> current_color,
      is_on |-> is_on, active |-> active, text |-> text, image |-> image,
      border_color |-> border_color, submit_on_return |-> submit_on_return,
      handlers |-> handlers, button_image |-> button_image, size |-> size,
      image_surface |-> image_surface, og_image_surface |-> og_image_surface,
      state_stack |-> state_stack, prev_state |-> prev_state,
      files |-> files, position |-> position, returned |-> returned,
      mouse_pos |-> mouse_pos, calls |-> calls,
      raised |-> raised, exited |-> exited]

\* The next state is record t, reached by operation o
Commit(t, o) ==
    /\ kind' = t.kind /\ visible' = t.visible /\ parent' = t.parent
    /\ child_elements' = t.child_elements
    /\ graphic_elements' = t.graphic_elements
    /\ graphic_events' = t.graphic_events
    /\ funcs' = t.funcs /\ on_quit' = t.on_quit
    /\ rect' = t.rect /\ func' = t.func /\ label' = t.label
    /\ label_alignment' = t.label_alignment /\ anchor' = t.anchor
    /\ disabled' = t.disabled /\ pressed' = t.pressed
    /\ current_color' = t.current_color /\ is_on' = t.is_on
    /\ active' = t.active /\ text' = t.text /\ image' = t.image
    /\ border_color' = t.border_color
    /\ submit_on_return' = t.submit_on_return /\ handlers' = t.handlers
    /\ button_image' = t.button_image /\ size' = t.size
    /\ image_surface' = t.image_surface
    /\ og_image_surface' = t.og_image_surface
    /\ state_stack' = t.state_stack /\ prev_state' = t.prev_state
    /\ files' = t.files /\ position' = t.position /\ returned' = t.returned
    /\ mouse_pos' = t.mouse_pos /\ calls' = t.calls
    /\ raised' = t.raised /\ exited' = t.exited
    /\ op' = o

\* The state when the module has been imported: class attributes of
\* EventManager and Canvas, and no object constructed yet
Imported ==
    [kind |-> [i \in Ids |-> "unset"], visible |-> [i \in Ids |-> FALSE],
     parent |-> [i \in Ids |-> None], child_elements |-> [i \in Ids |-> <<>>],
     graphic_elements |-> <<>>, graphic_events |-> <<>>, funcs |-> <<>>,
     on_quit |-> NoneCb, rect |-> [i \in Ids |-> <<0, 0, 0, 0>>],
     func |-> [i \in Ids |-> NoneCb], label |-> [i \in Ids |-> None],
     label_alignment |-> [i \in Ids |-> ""], anchor |-> [i \in Ids |-> ""],
     disabled |-> [i \in Ids |-> FALSE], pressed |-> [i \in Ids |-> FALSE],
     current_color |-> [i \in Ids |-> ""], is_on |-> [i \in Ids |-> FALSE],
     active |-> [i \in Ids |-> FALSE], text |-> [i \in Ids |-> <<>>],
     image |-> [i \in Ids |-> <<>>], border_color |-> [i \in Ids |-> ""],
     submit_on_return |-> [i \in Ids |-> FALSE], handlers |-> [i \in Ids |-> {}],
     button_image |-> [i \in Ids |-> None], size |-> [i \in Ids |-> NoSize],
     image_surface |-> [i \in Ids |-> NoSurface],
     og_image_surface |-> [i \in Ids |-> NoSurface],
     state_stack |-> <<>>, prev_state |-> [i \in StateIds |-> None],
     files |-> [f \in Paths |-> Absent], position |-> Origin, returned |-> PyNone,
     mouse_pos |-> Origin, calls |-> <<>>, raised |-> "", exited |-> FALSE]

\* An operation starts with an empty call record and no exception
Begin(s) == [s EXCEPT !.calls = <<>>, !.raised = ""]

Constructed(s) == {i \in Ids : s.kind[i] # "unset"}
NewId(s) == Cardinality(Constructed(s)) + 1

\* ------------------------------------------------------------ call record
Seen(s, g) == IF g = None
              THEN [pressed |-> FALSE, is_on |-> FALSE, active |-> FALSE, text |-> <<>>]
              ELSE [pressed |-> s.pressed[g], is_on |-> s.is_on[g],
                    active |-> s.active[g], text |-> s.text[g]]

\* One entry of `calls`. fn: what is called ("draw", "func", "handle_event",
\* "on_quit" or the name of a widget's user callback); obj: the object it is
\* called on (draw, handle_event) or that calls it (user callback); by: the
\* widget whose draw calls this draw (None when Canvas does); cb: the free-form
\* callback; n, ev: index in the drained batch and the event being dispatched;
\* text, flag: the argument passed; seen: fields of obj when the call is made
Entry(s, fn, obj) ==
    [fn |-> fn, obj |-> obj, by |-> None, cb |-> NoneCb, n |-> 0, ev |-> NoEvent,
     text |-> <<>>, flag |-> FALSE, seen |-> Seen(s, obj)]

Record(s, entry) == [s EXCEPT !.calls = Append(@, entry)]

\* User callables that raise when they are called, and the mark an InputBox
\* carries for a callback of it that raises
Raising == {"f_raises", "on_click_raises", "on_value_change_raises", "on_quit_raises"}
Failing == [on_value_change |-> "on_value_change_fails", on_delete |-> "on_delete_fails",
            on_submit |-> "on_submit_fails", on_select |-> "on_select_fails"]

\* The call just recorded ends with the exception of the callable, when it raises
Raise(s, raises) == IF raises THEN [s EXCEPT !.raised = "CallbackError"] ELSE s

DrawCall(s, g, by) == Record(s, [Entry(s, "draw", g) EXCEPT !.by = by])
FuncCall(s, f, n, e) ==
    Raise(Record(s, [Entry(s, "func", None) EXCEPT !.cb = f, !.n = n, !.ev = e]), f \in Raising)
HandleCall(s, g, n, e) == Record(s, [Entry(s, "handle_event", g) EXCEPT !.n = n, !.ev = e])
QuitCall(s) ==
    Raise(Record(s, [Entry(s, "on_quit", None) EXCEPT !.cb = s.on_quit]), s.on_quit \in Raising)
UserCall(s, g, name, n, e, txt, flag) ==
    Record(s, [Entry(s, name, g) EXCEPT !.n = n, !.ev = e, !.text = txt, !.flag = flag])

\* ------------------------------------------------------------ Canvas, EventManager
\* list.remove(x): the list without its first entry equal to x
RECURSIVE ListRemove(_, _)
ListRemove(seq, x) ==
    IF seq = <<>> THEN <<>>
    ELSE IF Head(seq) = x THEN Tail(seq)
    ELSE <<Head(seq)>> \o ListRemove(Tail(seq), x)

\* An update that adds the given list to the registry
Canvas_update_managed_objects_extend(s, graphics) ==
    [s EXCEPT !.graphic_elements = @ \o graphics]

Canvas_update_managed_objects(s, graphics) == [s EXCEPT !.graphic_elements = graphics]

Canvas_add_managed_object(s, g) == [s EXCEPT !.graphic_elements = Append(@, g)]

\* A remove that takes every entry equal to g away
Canvas_remove_managed_object_all(s, g) ==
    IF g \in Range(s.graphic_elements)
    THEN [s EXCEPT !.graphic_elements = SelectSeq(@, LAMBDA x : x # g)]
    ELSE [s EXCEPT !.raised = "ValueError"]

Canvas_remove_managed_object(s, g) ==
    IF g \in Range(s.graphic_elements)
    THEN [s EXCEPT !.graphic_elements = ListRemove(@, g)]
    ELSE [s EXCEPT !.raised = "ValueError"]

EventManager_update_managed_objects(s, ges) == [s EXCEPT !.graphic_events = ges]

EventManager_add_managed_object(s, g) == [s EXCEPT !.graphic_events = Append(@, g)]

\* call_backs is None, one callable or a list: [tag, fs]
NoCallBacks == [tag |-> "None", fs |-> <<>>]
OneCallBack(f) == [tag |-> "callable", fs |-> <<f>>]
CallBackList(fs) == [tag |-> "list", fs |-> fs]

\* `if call_backs:` is false for None and for the empty list
Truthy(call_backs) == call_backs.tag = "callable"
                      \/ (call_backs.tag = "list" /\ call_backs.fs # <<>>)

set_events(s, call_backs, quit) ==
    [s EXCEPT !.funcs = IF Truthy(call_backs) THEN call_backs.fs ELSE @,
              !.on_quit = quit]

\* An add_event that puts the callback in front of the list
add_event_first(s, f) == [s EXCEPT !.funcs = <<f>> \o @]

add_event(s, f) == [s EXCEPT !.funcs = Append(@, f)]

\* ------------------------------------------------------------ Graphic
add_child_element(s, p, child) == [s EXCEPT !.child_elements[p] = Append(@, child)]

set_parent(s, g, p) ==
    LET t == [s EXCEPT !.parent[g] = p]
    IN  IF p # None THEN add_child_element(t, p, g) ELSE t

\* A constructor that registers the new Graphic twice
Graphic_init_twice(s, g, p) ==
    Canvas_add_managed_object(
        Canvas_add_managed_object(set_parent([s EXCEPT !.visible[g] = TRUE], g, p), g), g)

Graphic_init(s, g, p) ==
    Canvas_add_managed_object(set_parent([s EXCEPT !.visible[g] = TRUE], g, p), g)

Graphic_Event_init(s, g) == EventManager_add_managed_object(s, g)

set_visible(s, g, value) == [s EXCEPT !.visible[g] = value]

\* is_rendered that reads the object's own flag only
is_rendered_own_flag(s, g) == s.visible[g]

\* visible and parent.is_rendered, the parent looked at only when visible
\* holds; every parent costs one nested call, and a chain of more than depth
\* parents is one that comes back to an object it left: the interpreter ends
\* that recursion with RecursionError
RECURSIVE is_rendered_within(_, _, _)
is_rendered_within(s, g, depth) ==
    IF s.parent[g] # None
    THEN IF ~ s.visible[g] THEN "False"
         ELSE IF depth = 0 THEN "RecursionError"
         ELSE is_rendered_within(s, s.parent[g], depth - 1)
    ELSE IF s.visible[g] THEN "True" ELSE "False"

is_rendered(s, g) == is_rendered_within(s, g, MaxObjs) = "True"

\* reading g.is_rendered raises instead of returning
Overflows(s, g) == is_rendered_within(s, g, MaxObjs) = "RecursionError"

override_rendering(s, g) == Canvas_remove_managed_object(s, g)

\* ------------------------------------------------------------ Panel, Label
Panel_init(s, g, p) ==
    [Graphic_init([s EXCEPT !.kind[g] = "Panel"], g, p) EXCEPT !.child_elements[g] = <<>>]

render(s, g) == [s EXCEPT !.image[g] = s.text[g]]

Label_init(s, g, k, txt, p) ==
    render([Graphic_init([s EXCEPT !.kind[g] = k], g, p)
                EXCEPT !.text[g] = txt, !.anchor[g] = "midleft"], g)

\* Label.set_text(text)
set_text(s, g, txt) == render([s EXCEPT !.text[g] = txt], g)

Label_set_position(s, g, a) == IF a # "" THEN [s EXCEPT !.anchor[g] = a] ELSE s

\* ------------------------------------------------------------ UiImage
\* pygame.transform.scale(surface, size)
scale(surface, sz) == [surface EXCEPT !.size = sz]

\* surface.fill(color, special_flags=BLEND_RGBA_MULT)
fill(surface, color) ==
    IF color \in White THEN surface ELSE [surface EXCEPT !.tints = Append(@, color)]

\* UiImage.scale_image: the scaled surface also becomes the preserved original
scale_image(s, g) ==
    IF s.size[g] # NoSize
    THEN LET scaled == scale(s.image_surface[g], s.size[g])
         IN  [s EXCEPT !.image_surface[g] = scaled, !.og_image_surface[g] = scaled]
    ELSE s

\* set_image(image_surface): the surface is given, not a file name
set_image(s, g, surface) ==
    LET t == scale_image([s EXCEPT !.image_surface[g] = surface], g)
    IN  [t EXCEPT !.og_image_surface[g] = t.image_surface[g]]

tint_image(s, g, color) ==
    [s EXCEPT !.image_surface[g] = fill(s.og_image_surface[g], color)]

UiImage_init(s, g, surface, sz, color_tint, p) ==
    LET s1 == [Graphic_init([s EXCEPT !.kind[g] = "UiImage"], g, p)
                  EXCEPT !.size[g] = sz, !.image_surface[g] = NoSurface]
    IN  tint_image(set_image(s1, g, surface), g, color_tint)
\* ------------------------------------------------------------ Button, CheckBox
ButtonSize == <<150, 75>>
CheckBoxSize == <<50, 50>>
InputBoxSize == <<150, 35>>

\* Names that getattr(pygame.Rect, name) finds: the nine anchors and the
\* other attributes of a Rect
RectAttributes == Alignments \cup {"x", "y", "top", "left", "bottom", "right",
                                   "centerx", "centery", "size", "width", "height", "w", "h"}

Rect(pos, sz) == <<pos[1], pos[2], sz[1], sz[2]>>

\* pygame.Rect.collidepoint: the right and bottom edges are outside
collidepoint(r, pos) ==
    /\ r[1] <= pos[1] /\ pos[1] < r[1] + r[3]
    /\ r[2] <= pos[2] /\ pos[2] < r[2] + r[4]

set_color(s, g, color) ==
    LET t == [s EXCEPT !.current_color[g] = color]
    IN  IF t.button_image[g] # None THEN tint_image(t, t.button_image[g], color) ELSE t

set_disabled(s, g, value) ==
    set_color([s EXCEPT !.disabled[g] = value], g, "disabled_color")

set_label_pos(s, g) ==
    IF s.label[g] = None THEN s
    ELSE IF s.label_alignment[g] \notin RectAttributes
         THEN [s EXCEPT !.raised = "AlignmentNotSupportedError"]
         ELSE Label_set_position(s, s.label[g], s.label_alignment[g])

\* The constructor up to self.rect: the image leaves the Canvas registry, takes
\* the button's size and is scaled to it
Button_init_image(s, g, img, sz) ==
    LET s1 == [s EXCEPT !.button_image[g] = img]
        s2 == IF img # None THEN override_rendering(s1, img) ELSE s1
    IN  IF s2.raised # "" THEN s2
        ELSE IF img # None
        THEN LET s3 == scale_image([s2 EXCEPT !.size[img] = sz], img)
             IN  [s3 EXCEPT !.rect[g] = Rect(Origin, s3.image_surface[img].size)]
        ELSE [s2 EXCEPT !.rect[g] = Rect(Origin, sz)]

Button_init(s, g, k, img, on_click, sz, dis, lab, align, p) ==
    LET s1 == Graphic_Event_init(Graphic_init([s EXCEPT !.kind[g] = k], g, p), g)
        s2 == Button_init_image(s1, g, img, sz)
        s3 == [set_color([s2 EXCEPT !.func[g] = on_click], g, "color")
                  EXCEPT !.pressed[g] = FALSE]
        s4 == [set_disabled(s3, g, dis) EXCEPT !.label[g] = lab,
                                               !.label_alignment[g] = align]
        s5 == IF lab # None THEN override_rendering(s4, lab) ELSE s4
    IN  IF s2.raised # "" THEN s2
        ELSE IF s5.raised # "" THEN s5
        ELSE set_label_pos(IF lab # None THEN render(s5, lab) ELSE s5, g)

CheckBox_init(s, g, on_value_change, on, dis, align, p) ==
    [Button_init(s, g, "CheckBox", None, on_value_change, CheckBoxSize, dis, None, align, p)
        EXCEPT !.is_on[g] = on]

\* A mouseover that recolors a pressed button as well
mouseover_while_pressed(s, g) ==
    IF s.disabled[g] THEN s
    ELSE IF collidepoint(s.rect[g], s.mouse_pos)
         THEN set_color(set_color(s, g, "color"), g, "hover_color")
         ELSE set_color(s, g, "color")

mouseover(s, g) ==
    IF s.disabled[g] \/ s.pressed[g] THEN s
    ELSE IF collidepoint(s.rect[g], s.mouse_pos)
         THEN set_color(set_color(s, g, "color"), g, "hover_color")
         ELSE set_color(s, g, "color")

button_press(s, g) == set_color([s EXCEPT !.pressed[g] = TRUE], g, "pressed_color")

button_release(s, g) == [s EXCEPT !.pressed[g] = FALSE]

\* Button.call_back(*args): the user callback, when one is set
\* A call_back that catches what the user callback raises
Button_call_back_caught(s, g, n, e, flag) ==
    IF s.func[g] # NoneCb THEN UserCall(s, g, s.func[g], n, e, <<>>, flag) ELSE s

Button_call_back(s, g, n, e, flag) ==
    IF s.func[g] # NoneCb
    THEN Raise(UserCall(s, g, s.func[g], n, e, <<>>, flag), s.func[g] \in Raising)
    ELSE s

\* A call_back that calls the user callback before it toggles is_on
CheckBox_call_back_then_toggle(s, g, n, e) ==
    [Button_call_back(s, g, n, e, s.is_on[g]) EXCEPT !.is_on[g] = ~ @]

CheckBox_call_back(s, g, n, e) ==
    LET t == [s EXCEPT !.is_on[g] = ~ @]
    IN  Button_call_back(t, g, n, e, t.is_on[g])

call_back(s, g, n, e) ==
    IF s.kind[g] = "CheckBox" THEN CheckBox_call_back(s, g, n, e)
    ELSE Button_call_back(s, g, n, e, FALSE)

\* A handle_event that clicks only a button that was pressed
Button_handle_event_pressed_only(s, g, n, e) ==
    IF s.disabled[g] \/ ~ is_rendered(s, g) THEN s
    ELSE IF e.type = "MOUSEBUTTONDOWN"
    THEN IF e.button # LEFT THEN s
         ELSE IF collidepoint(s.rect[g], s.mouse_pos) THEN button_press(s, g) ELSE s
    ELSE IF e.type = "MOUSEBUTTONUP"
    THEN IF e.button # LEFT THEN s
         ELSE LET t == button_release(s, g)
              IN  IF s.pressed[g] /\ collidepoint(t.rect[g], t.mouse_pos)
                  THEN call_back(t, g, n, e) ELSE t
    ELSE s

\* A handle_event that clicks while the button is still pressed
Button_handle_event_click_first(s, g, n, e) ==
    IF s.disabled[g] \/ ~ is_rendered(s, g) THEN s
    ELSE IF e.type = "MOUSEBUTTONDOWN"
    THEN IF e.button # LEFT THEN s
         ELSE IF collidepoint(s.rect[g], s.mouse_pos) THEN button_press(s, g) ELSE s
    ELSE IF e.type = "MOUSEBUTTONUP"
    THEN IF e.button # LEFT THEN s
         ELSE IF collidepoint(s.rect[g], s.mouse_pos)
              THEN button_release(call_back(s, g, n, e), g) ELSE button_release(s, g)
    ELSE s

Button_handle_event(s, g, n, e) ==
    IF s.disabled[g] THEN s
    ELSE IF Overflows(s, g) THEN [s EXCEPT !.raised = "RecursionError"]
    ELSE IF ~ is_rendered(s, g) THEN s
    ELSE IF e.type = "MOUSEBUTTONDOWN"
    THEN IF e.button # LEFT THEN s
         ELSE IF collidepoint(s.rect[g], s.mouse_pos) THEN button_press(s, g) ELSE s
    ELSE IF e.type = "MOUSEBUTTONUP"
    THEN IF e.button # LEFT THEN s
         ELSE LET t == button_release(s, g)
              IN  IF collidepoint(t.rect[g], t.mouse_pos) THEN call_back(t, g, n, e) ELSE t
    ELSE s

\* ------------------------------------------------------------ InputBox
InputBoxHandlers == {"on_value_change", "on_delete", "on_submit", "on_select"}

InputBox_init(s, g, hs, sor, txt, p) ==
    [Graphic_Event_init(Label_init(s, g, "InputBox", txt, p), g)
        EXCEPT !.rect[g] = Rect(Origin, InputBoxSize),
               !.border_color[g] = "border_color_inactive",
               !.active[g] = FALSE, !.handlers[g] = hs, !.submit_on_return[g] = sor]

\* InputBox.call_back(func): func(self.text), when func is set
InputBox_call_back(s, g, name, n, e) ==
    IF name \in s.handlers[g]
    THEN Raise(UserCall(s, g, name, n, e, s.text[g], FALSE), Failing[name] \in s.handlers[g])
    ELSE s

\* A set_border_state that leaves the border color as it is
set_border_state_stale(s, g) == s

set_border_state(s, g) ==
    [s EXCEPT !.border_color[g] = IF s.active[g] THEN "border_color_active"
                                  ELSE "border_color_inactive"]

\* A submit that clears the text before it calls on_submit
submit_after_clear(s, g, n, e) ==
    set_border_state([InputBox_call_back([s EXCEPT !.text[g] = <<>>], g, "on_submit", n, e)
                         EXCEPT !.active[g] = FALSE], g)

submit(s, g, n, e) ==
    LET t == InputBox_call_back(s, g, "on_submit", n, e)
    IN  IF t.raised # "" THEN t
        ELSE set_border_state([t EXCEPT !.text[g] = <<>>, !.active[g] = FALSE], g)

\* text[:-1]
DropLast(txt) == IF txt = <<>> THEN <<>> ELSE SubSeq(txt, 1, Len(txt) - 1)

\* A mouse-down handler that flips active before it calls on_select
InputBox_mouse_down_flip_first(s, g, n, e) ==
    set_border_state(
        IF collidepoint(s.rect[g], e.pos)
        THEN InputBox_call_back([s EXCEPT !.active[g] = ~ @], g, "on_select", n, e)
        ELSE [s EXCEPT !.active[g] = FALSE], g)

InputBox_mouse_down(s, g, n, e) ==
    LET t == IF collidepoint(s.rect[g], e.pos)
             THEN InputBox_call_back(s, g, "on_select", n, e) ELSE s
    IN  IF t.raised # "" THEN t
        ELSE set_border_state(
                 IF collidepoint(s.rect[g], e.pos)
                 THEN [t EXCEPT !.active[g] = ~ @]
                 ELSE [t EXCEPT !.active[g] = FALSE], g)

\* A key handler whose Backspace clears the whole text
InputBox_key_down_clear(s, g, n, e) ==
    IF ~ s.active[g] THEN s
    ELSE render(
        IF e.key = "K_RETURN"
        THEN IF s.submit_on_return[g] THEN submit(s, g, n, e) ELSE s
        ELSE IF e.key = "K_BACKSPACE"
        THEN [InputBox_call_back(s, g, "on_delete", n, e) EXCEPT !.text[g] = <<>>]
        ELSE [InputBox_call_back(s, g, "on_value_change", n, e)
                 EXCEPT !.text[g] = @ \o e.unicode], g)

InputBox_key_down(s, g, n, e) ==
    IF ~ s.active[g] THEN s
    ELSE LET t == IF e.key = "K_RETURN"
                  THEN IF s.submit_on_return[g] THEN submit(s, g, n, e) ELSE s
                  ELSE IF e.key = "K_BACKSPACE"
                  THEN InputBox_call_back(s, g, "on_delete", n, e)
                  ELSE InputBox_call_back(s, g, "on_value_change", n, e)
         IN  IF t.raised # "" THEN t
             ELSE render(
                 IF e.key = "K_RETURN" THEN t
                 ELSE IF e.key = "K_BACKSPACE" THEN [t EXCEPT !.text[g] = DropLast(@)]
                 ELSE [t EXCEPT !.text[g] = @ \o e.unicode], g)

\* A handle_event without the is_rendered guard
InputBox_handle_event_unguarded(s, g, n, e) ==
    IF e.type = "MOUSEBUTTONDOWN" THEN InputBox_mouse_down(s, g, n, e)
    ELSE IF e.type = "KEYDOWN" THEN InputBox_key_down(s, g, n, e)
    ELSE s

InputBox_handle_event(s, g, n, e) ==
    IF Overflows(s, g) THEN [s EXCEPT !.raised = "RecursionError"]
    ELSE IF ~ is_rendered(s, g) THEN s
    ELSE IF e.type = "MOUSEBUTTONDOWN" THEN InputBox_mouse_down(s, g, n, e)
    ELSE IF e.type = "KEYDOWN" THEN InputBox_key_down(s, g, n, e)
    ELSE s

handle_event(s, g, n, e) ==
    IF s.kind[g] \in ButtonKinds THEN Button_handle_event(s, g, n, e)
    ELSE IF s.kind[g] = "InputBox" THEN InputBox_handle_event(s, g, n, e)
    ELSE s
\* ------------------------------------------------------------ drawing
\* width of the image font.render gives for a text, in pixels
image_width(txt) == 12 * Len(txt)

Max(a, b) == IF a >= b THEN a ELSE b

Button_draw(s, g) ==
    LET t == mouseover(s, g)
        u == IF t.button_image[g] # None THEN DrawCall(t, t.button_image[g], g) ELSE t
    IN  IF u.label[g] # None THEN DrawCall(u, u.label[g], g) ELSE u

InputBox_draw(s, g) ==
    [s EXCEPT !.rect[g][3] = Max(InputBoxSize[1], image_width(s.image[g]) + 10)]

draw(s, g) ==
    IF s.kind[g] \in ButtonKinds THEN Button_draw(s, g)
    ELSE IF s.kind[g] = "InputBox" THEN InputBox_draw(s, g)
    ELSE s

\* A draw loop that does not consult is_rendered
RECURSIVE DrawLoop_all(_, _)
DrawLoop_all(s, i) ==
    IF i > Len(s.graphic_elements) THEN s
    ELSE LET g == s.graphic_elements[i]
         IN  DrawLoop_all(draw(DrawCall(s, g, None), g), i + 1)

RECURSIVE DrawLoop(_, _)
DrawLoop(s, i) ==
    IF i > Len(s.graphic_elements) \/ s.raised # "" THEN s
    ELSE LET g == s.graphic_elements[i]
         IN  DrawLoop(IF Overflows(s, g) THEN [s EXCEPT !.raised = "RecursionError"]
                      ELSE IF is_rendered(s, g) THEN draw(DrawCall(s, g, None), g)
                      ELSE s, i + 1)

Canvas_draw(s) == IF s.graphic_elements = <<>> THEN s ELSE DrawLoop(s, 1)

\* ------------------------------------------------------------ dispatch
RECURSIVE FuncsLoop(_, _, _, _)
FuncsLoop(s, i, n, e) ==
    IF i > Len(s.funcs) \/ s.raised # "" THEN s
    ELSE FuncsLoop(FuncCall(s, s.funcs[i], n, e), i + 1, n, e)

RECURSIVE GraphicEventsLoop(_, _, _, _)
GraphicEventsLoop(s, i, n, e) ==
    IF i > Len(s.graphic_events) \/ s.raised # "" THEN s
    ELSE LET ge == s.graphic_events[i]
         IN  GraphicEventsLoop(handle_event(HandleCall(s, ge, n, e), ge, n, e), i + 1, n, e)

\* A quit branch that calls on_quit and does not leave the process
quit_without_exit(s) == IF s.on_quit # NoneCb THEN QuitCall(s) ELSE s

\* The quit branch: on_quit when set, then pygame.quit() and sys.exit()
quit(s) ==
    LET t == IF s.on_quit # NoneCb THEN QuitCall(s) ELSE s
    IN  IF t.raised # "" THEN t ELSE [t EXCEPT !.exited = TRUE, !.raised = "SystemExit"]

\* An event loop that serves the listeners before the free-form callbacks
RECURSIVE EventsLoop_listeners_first(_, _, _)
EventsLoop_listeners_first(s, events, n) ==
    IF n > Len(events) THEN s
    ELSE LET e == events[n]
         IN  IF e.type = "QUIT" THEN quit(s)
             ELSE EventsLoop_listeners_first(
                      FuncsLoop(GraphicEventsLoop(s, 1, n, e), 1, n, e), events, n + 1)

RECURSIVE EventsLoop(_, _, _)
EventsLoop(s, events, n) ==
    IF n > Len(events) \/ s.raised # "" THEN s
    ELSE LET e == events[n]
         IN  IF e.type = "QUIT" THEN quit(s)
             ELSE EventsLoop(GraphicEventsLoop(FuncsLoop(s, 1, n, e), 1, n, e), events, n + 1)

handle_events(s, events) == EventsLoop(s, events, 1)

\* ------------------------------------------------------------ State
enter_state(s, st) ==
    [s EXCEPT !.prev_state[st] = IF Len(s.state_stack) > 1
                                 THEN s.state_stack[Len(s.state_stack)] ELSE @,
              !.state_stack = Append(@, st)]

\* state_stack.pop() takes the last state of the list away
exit_state(s, st) ==
    IF s.state_stack # <<>>
    THEN [Canvas_update_managed_objects(s, <<>>) EXCEPT !.state_stack = DropLast(@)]
    ELSE s

\* ------------------------------------------------------------ JsonSave
\* json.dump: the document a value is written as. A tuple is written as an
\* array, like a list.
RECURSIVE json_dump(_)
json_dump(v) ==
    IF v.type = "dict"
    THEN [type |-> "object", n |-> 0,
          items |-> [k \in JsonKeys |-> IF v.items[k] = Missing THEN Missing
                                        ELSE json_dump(v.items[k])]]
    ELSE IF v.type = "int" THEN Value("number", v.n)
    ELSE IF v.type \in {"list", "tuple"} THEN Value("array", v.n)
    ELSE Value("null", 0)

\* json.load: the value a document is read as. An array is read as a list.
RECURSIVE json_load(_)
json_load(j) ==
    IF j.type = "object"
    THEN Dict([k \in JsonKeys |-> IF j.items[k] = Missing THEN Missing
                                  ELSE json_load(j.items[k])])
    ELSE IF j.type = "number" THEN PyInt(j.n)
    ELSE IF j.type = "array" THEN Value("list", j.n)
    ELSE PyNone

\* A test that takes None alone for false
Falsy_none_only(v) == v.type = "NoneType"

\* `not v`: None, 0, the empty list or tuple, the empty dict
Falsy(v) ==
    \/ v.type = "NoneType"
    \/ v.type \in {"int", "list", "tuple"} /\ v.n = 0
    \/ v.type = "dict" /\ \A k \in JsonKeys : v.items[k] = Missing

exists(s, f) == s.files[f] # Absent

\* open(file_path, 'w+') leaves an empty file; contents are written when truthy
set_contents(s, f, contents) ==
    [s EXCEPT !.files[f] = IF Falsy(contents) THEN EmptyFile ELSE Text(json_dump(contents)),
              !.returned = PyNone]

get_contents(s, f) ==
    IF ~ exists(s, f) THEN [set_contents(s, f, EmptyDict) EXCEPT !.returned = EmptyDict]
    ELSE [s EXCEPT !.returned = IF s.files[f].kind = "json"
                                THEN json_load(s.files[f].json) ELSE EmptyDict]

\* A save that writes the one pair it was given and drops what the file held
save_fresh(s, f, key, value) ==
    [s EXCEPT !.files[f] = Text(json_dump([EmptyDict EXCEPT !.items[key] = value])),
              !.returned = PyNone]

save(s, f, key, value) ==
    LET s1 == get_contents(s, f)
        data == [s1.returned EXCEPT !.items[key] = value]
    IN  [s1 EXCEPT !.files[f] = Text(json_dump(data)), !.returned = PyNone]

\* dict.get(key)
get(data, key) == IF data.items[key] = Missing THEN PyNone ELSE data.items[key]

\* A load that gives the default for a missing file and writes nothing
load_no_create(s, f, key, default_value) ==
    IF ~ exists(s, f) THEN [s EXCEPT !.returned = default_value]
    ELSE IF s.files[f].kind # "json"
    THEN [s EXCEPT !.raised = "JSONDecodeError", !.returned = PyNone]
    ELSE LET value == get(json_load(s.files[f].json), key)
         IN  IF Falsy(value)
             THEN [save(s, f, key, default_value) EXCEPT !.returned = default_value]
             ELSE [s EXCEPT !.returned = value]

load(s, f, key, default_value) ==
    LET s1 == IF ~ exists(s, f) THEN save(s, f, key, default_value) ELSE s
    IN  IF s1.files[f].kind # "json"
        THEN [s1 EXCEPT !.raised = "JSONDecodeError", !.returned = PyNone]
        ELSE LET value == get(json_load(s1.files[f].json), key)
             IN  IF Falsy(value)
                 THEN [save(s1, f, key, default_value) EXCEPT !.returned = default_value]
                 ELSE [s1 EXCEPT !.returned = value]

clear_contents(s, f) == set_contents(s, f, PyNone)

delete_key(s, f, key) ==
    LET s1 == get_contents(s, f)
    IN  IF s1.returned.items[key] = Missing
        THEN [s1 EXCEPT !.raised = "KeyError", !.returned = PyNone]
        ELSE set_contents(s1, f, [s1.returned EXCEPT !.items[key] = Missing])

delete_file(s, f) == [s EXCEPT !.files[f] = Absent, !.returned = PyNone]

\* ------------------------------------------------------------ Circle
\* Vector2(x, y): both have to be numbers
Vector2(s, x, y) ==
    IF x.type = "int" /\ y.type = "int" THEN [s EXCEPT !.position = <<x.n, y.n>>]
    ELSE [s EXCEPT !.raised = "ValueError"]

\* Circle.move(x, y): `if x and y`, `elif x`, `else`
move(s, x, y) ==
    IF ~ Falsy(x) /\ ~ Falsy(y) THEN Vector2(s, x, y)
    ELSE IF ~ Falsy(x) THEN Vector2(s, x, PyInt(s.position[2]))
    ELSE Vector2(s, PyInt(s.position[1]), y)

\* ------------------------------------------------------------ Math
Abs(n) == IF n < 0 THEN 0 - n ELSE n

RECURSIVE Pow2(_)
Pow2(k) == IF k = 0 THEN 1 ELSE 2 * Pow2(k - 1)

\* The spacing of the floats around a number of magnitude n: 1 while n fits
\* the significand, doubled with every further bit
RECURSIVE Ulp(_)
Ulp(n) == IF n < Pow2(MantissaBits) THEN 1 ELSE 2 * Ulp(n \div 2)

\* The float nearest to the number n, ties to the even significand
Float(n) ==
    LET u == Ulp(Abs(n))
        q == Abs(n) \div u
        r == Abs(n) % u
        up == 2 * r > u \/ (2 * r = u /\ q % 2 = 1)
        v == (IF up THEN q + 1 ELSE q) * u
    IN  IF n < 0 THEN 0 - v ELSE v

Min(a, b) == IF b < a THEN b ELSE a

clamp(value, min_value, max_value) == Max(Min(value, max_value), min_value)

clamp_01(value) == clamp(value, 0, 1)

\* a + (b - a) * t in float arithmetic: every operation rounds its result
lerp(a, b, t) == Float(a + Float(Float(b - a) * clamp_01(t)))

\* ------------------------------------------------------------ actions
Panels(s) == {i \in Ids : s.kind[i] = "Panel"}
Labels(s) == {i \in Ids : s.kind[i] = "Label"}
Parents(s) == {None} \cup Panels(s)
Callbacks == {"f1", "f2"}

CanConstruct == ~ exited /\ Cardinality(Constructed(S)) < MaxObjs

NewPanel ==
    /\ CanConstruct
    /\ \E p \in Parents(S) :
          Commit(Panel_init(Begin(S), NewId(S), p), [name |-> "Panel", obj |-> NewId(S)])

NewLabel ==
    /\ CanConstruct
    /\ \E p \in Parents(S) :
          Commit(Label_init(Begin(S), NewId(S), "Label", <<>>, p),
                 [name |-> "Label", obj |-> NewId(S)])

\* Button(on_click=f, label=lab, parent=p), the other arguments at their defaults
NewButton ==
    /\ CanConstruct
    /\ \E p \in Parents(S), lab \in {None} \cup Labels(S) :
          Commit(Button_init(Begin(S), NewId(S), "Button", None, "on_click", ButtonSize,
                             FALSE, lab, "center", p),
                 [name |-> "Button", obj |-> NewId(S), label |-> lab])

UiImages(s) == {i \in Ids : s.kind[i] = "UiImage"}
ImageSizes == {NoSize, <<32, 32>>}

\* Alignments given to a constructor: an anchor, an attribute of pygame.Rect
\* that is no anchor, and a name pygame.Rect does not have
AlignmentInputs == {"center", "top", "middle"}

\* UiImage(image_surface=picture, size=sz, color_tint=c, parent=p)
NewUiImage ==
    /\ CanConstruct
    /\ \E p \in Parents(S), sz \in ImageSizes, c \in TintColors :
          Commit(UiImage_init(Begin(S), NewId(S), Bitmap("picture"), sz, c, p),
                 [name |-> "UiImage", obj |-> NewId(S), color |-> c])

\* Button(image=img, on_click=f, label=lab, label_alignment=align, parent=p)
NewButtonOf ==
    /\ CanConstruct
    /\ \E p \in Parents(S), img \in {None} \cup UiImages(S),
          lab \in {None} \cup Labels(S), align \in AlignmentInputs :
          Commit(Button_init(Begin(S), NewId(S), "Button", img, "on_click", ButtonSize,
                             FALSE, lab, align, p),
                 [name |-> "Button", obj |-> NewId(S), image |-> img, label |-> lab,
                  label_alignment |-> align])

\* CheckBox(on_value_change=f, label_alignment=align, parent=p)
NewCheckBox ==
    /\ CanConstruct
    /\ \E p \in Parents(S), align \in AlignmentInputs :
          Commit(CheckBox_init(Begin(S), NewId(S), "on_value_change", FALSE, FALSE,
                               align, p),
                 [name |-> "CheckBox", obj |-> NewId(S), image |-> None, label |-> None,
                  label_alignment |-> align])

\* InputBox(on_value_change=.., on_delete=.., on_submit=.., on_select=.., parent=p)
NewInputBox ==
    /\ CanConstruct
    /\ \E p \in Parents(S) :
          Commit(InputBox_init(Begin(S), NewId(S), InputBoxHandlers, TRUE, <<>>, p),
                 [name |-> "InputBox", obj |-> NewId(S)])

SetImage ==
    /\ ~ exited
    /\ \E g \in UiImages(S) :
          Commit(set_image(Begin(S), g, Bitmap("picture")),
                 [name |-> "set_image", obj |-> g])

ScaleImage ==
    /\ ~ exited
    /\ \E g \in UiImages(S) :
          /\ Len(image_surface[g].tints) < MaxTints
          /\ Commit(scale_image(Begin(S), g), [name |-> "scale_image", obj |-> g])

TintImage ==
    /\ ~ exited
    /\ \E g \in UiImages(S), c \in TintColors :
          Commit(tint_image(Begin(S), g, c),
                 [name |-> "tint_image", obj |-> g, color |-> c])

SetVisible ==
    /\ ~ exited
    /\ \E g \in Constructed(S), value \in BOOLEAN :
          /\ visible[g] # value
          /\ Commit(set_visible(Begin(S), g, value),
                    [name |-> "set_visible", obj |-> g, value |-> value])

\* g.set_parent(p): p is None or a panel, g itself among them
SetParent ==
    /\ ~ exited
    /\ \E g \in Constructed(S), p \in Parents(S) :
          /\ p # None => Len(child_elements[p]) < MaxChildren
          /\ Commit(set_parent(Begin(S), g, p),
                    [name |-> "set_parent", obj |-> g, parent |-> p])

SetDisabled ==
    /\ ~ exited
    /\ \E g \in Constructed(S), value \in BOOLEAN :
          /\ kind[g] \in ButtonKinds
          /\ Commit(set_disabled(Begin(S), g, value),
                    [name |-> "set_disabled", obj |-> g, value |-> value])

MouseMove ==
    /\ ~ exited
    /\ \E pos \in Points :
          /\ pos # mouse_pos
          /\ Commit([Begin(S) EXCEPT !.mouse_pos = pos], [name |-> "mouse_move"])

RemoveManagedObject ==
    /\ ~ exited
    /\ \E g \in Constructed(S) :
          Commit(Canvas_remove_managed_object(Begin(S), g),
                 [name |-> "remove_managed_object", obj |-> g])

UpdateManagedObjects ==
    /\ ~ exited
    /\ \E graphics \in SeqsUpTo(Constructed(S), MaxList) :
          Commit(Canvas_update_managed_objects(Begin(S), graphics),
                 [name |-> "update_managed_objects", graphics |-> graphics])

Draw ==
    /\ ~ exited
    /\ Commit(Canvas_draw(Begin(S)), [name |-> "draw"])

SetEvents ==
    /\ ~ exited
    /\ \E call_backs \in {NoCallBacks} \cup {OneCallBack(f) : f \in Callbacks}
                         \cup {CallBackList(fs) : fs \in SeqsUpTo(Callbacks, MaxFuncs)},
          q \in {NoneCb, "on_quit"} :
          Commit(set_events(Begin(S), call_backs, q),
                 [name |-> "set_events", call_backs |-> call_backs, on_quit |-> q])

AddEvent ==
    /\ ~ exited
    /\ Len(funcs) < MaxFuncs
    /\ \E f \in Callbacks :
          Commit(add_event(Begin(S), f), [name |-> "add_event", call_back |-> f])

TextFits(s) == \A g \in Ids : Len(s.text[g]) <= MaxText

\* One handle_events call that drains a batch of pending events
BatchEvents == {MouseEvent("MOUSEBUTTONDOWN", LEFT, Origin),
                MouseEvent("MOUSEBUTTONUP", LEFT, Origin), KeyEvent("a"), QuitEvent}

HandleEvents ==
    /\ ~ exited
    /\ \E events \in SeqsUpTo(BatchEvents, MaxBatch) :
          LET t == handle_events(Begin(S), events)
          IN  /\ TextFits(t)
              /\ Commit(t, [name |-> "handle_events", events |-> events])

\* One handle_events call with a single pending event, of any kind
HandleOneEvent ==
    /\ ~ exited
    /\ \E e \in Events :
          LET t == handle_events(Begin(S), <<e>>)
          IN  /\ TextFits(t)
              /\ Commit(t, [name |-> "handle_events", events |-> <<e>>])

InputBoxes(s) == {i \in Ids : s.kind[i] = "InputBox"}
Texts == {<<>>, <<"a">>, <<"b", "a">>}

\* box.submit() called by the program, outside any event
Submit ==
    /\ ~ exited
    /\ \E g \in InputBoxes(S) :
          Commit(submit(Begin(S), g, 0, NoEvent), [name |-> "submit", obj |-> g])

SetText ==
    /\ ~ exited
    /\ \E g \in InputBoxes(S), txt \in Texts :
          Commit(set_text(Begin(S), g, txt), [name |-> "set_text", obj |-> g, text |-> txt])

EnterState ==
    /\ ~ exited
    /\ Len(state_stack) < MaxStack
    /\ \E st \in StateIds :
          Commit(enter_state(Begin(S), st), [name |-> "enter_state", state |-> st])

ExitState ==
    /\ ~ exited
    /\ \E st \in StateIds :
          Commit(exit_state(Begin(S), st), [name |-> "exit_state", state |-> st])

\* Values given to save, defaults given to load, contents given to set_contents
SaveValues == {PyInt(0), PyInt(5), Value("list", 0), Value("list", 1), Value("tuple", 1)}
DefaultValues == {PyInt(0), PyInt(7)}
Contents == {PyNone, EmptyDict, Dict([k \in JsonKeys |-> PyInt(5)])}

\* The record of a JsonSave call: its arguments and the file it found
JsonOp(name, f, key, value) ==
    [name |-> name, path |-> f, key |-> key, value |-> value, before |-> files[f]]

Save ==
    /\ ~ exited
    /\ \E f \in Paths, key \in JsonKeys, value \in SaveValues :
          Commit(save(Begin(S), f, key, value), JsonOp("save", f, key, value))

Load ==
    /\ ~ exited
    /\ \E f \in Paths, key \in JsonKeys, default_value \in DefaultValues :
          Commit(load(Begin(S), f, key, default_value), JsonOp("load", f, key, default_value))

GetContents ==
    /\ ~ exited
    /\ \E f \in Paths :
          Commit(get_contents(Begin(S), f), JsonOp("get_contents", f, "", PyNone))

SetContents ==
    /\ ~ exited
    /\ \E f \in Paths, contents \in Contents :
          Commit(set_contents(Begin(S), f, contents), JsonOp("set_contents", f, "", contents))

ClearContents ==
    /\ ~ exited
    /\ \E f \in Paths :
          Commit(clear_contents(Begin(S), f), JsonOp("clear_contents", f, "", PyNone))

DeleteKey ==
    /\ ~ exited
    /\ \E f \in Paths, key \in JsonKeys :
          Commit(delete_key(Begin(S), f, key), JsonOp("delete_key", f, key, PyNone))

DeleteFile ==
    /\ ~ exited
    /\ \E f \in Paths :
          Commit(delete_file(Begin(S), f), JsonOp("delete_file", f, "", PyNone))

\* Coordinates and the arguments of move: a number, or None for an axis left out
Coordinates == {-1, 0, 2}
Axis == {PyNone} \cup {PyInt(n) : n \in Coordinates}

Move ==
    /\ ~ exited
    /\ \E x \in Axis, y \in Axis :
          Commit(move(Begin(S), x, y),
                 [name |-> "move", x |-> x, y |-> y, before |-> position])

\* Numbers given to clamp, and floats given to lerp
ClampInputs == -2..2
LerpInputs == {0, 1, 2, 7, 16}

Clamp ==
    /\ ~ exited
    /\ \E value \in ClampInputs, min_value \in ClampInputs, max_value \in ClampInputs :
          Commit([Begin(S) EXCEPT !.returned = PyInt(clamp(value, min_value, max_value))],
                 [name |-> "clamp", value |-> value, min_value |-> min_value,
                  max_value |-> max_value])

Lerp ==
    /\ ~ exited
    /\ \E a \in LerpInputs, b \in LerpInputs, t \in ClampInputs :
          Commit([Begin(S) EXCEPT !.returned = PyInt(lerp(a, b, t))],
                 [name |-> "lerp", a |-> a, b |-> b, t |-> t])

\* ------------------------------------------------------------ specifications
\* The variables hold state record t
Holds(t, o) ==
    /\ kind = t.kind /\ visible = t.visible /\ parent = t.parent
    /\ child_elements = t.child_elements
    /\ graphic_elements = t.graphic_elements
    /\ graphic_events = t.graphic_events
    /\ funcs = t.funcs /\ on_quit = t.on_quit
    /\ rect = t.rect /\ func = t.func /\ label = t.label
    /\ label_alignment = t.label_alignment /\ anchor = t.anchor
    /\ disabled = t.disabled /\ pressed = t.pressed
    /\ current_color = t.current_color /\ is_on = t.is_on
    /\ active = t.active /\ text = t.text /\ image = t.image
    /\ border_color = t.border_color
    /\ submit_on_return = t.submit_on_return /\ handlers = t.handlers
    /\ button_image = t.button_image /\ size = t.size
    /\ image_surface = t.image_surface
    /\ og_image_surface = t.og_image_surface
    /\ state_stack = t.state_stack /\ prev_state = t.prev_state
    /\ files = t.files /\ position = t.position /\ returned = t.returned
    /\ mouse_pos = t.mouse_pos /\ calls = t.calls
    /\ raised = t.raised /\ exited = t.exited
    /\ op = o

\* The scene graph: objects are constructed, shown and hidden, registered and
\* deregistered, and drawn
Init == Holds(Imported, [name |-> "import"])

Next ==
    \/ NewPanel
    \/ NewLabel
    \/ NewButton
    \/ SetVisible
    \/ RemoveManagedObject
    \/ UpdateManagedObjects
    \/ Draw

Spec == Init /\ [][Next]_vars

\* The parent chain alone: objects are constructed under panels, shown and hidden
NextTree ==
    \/ NewPanel
    \/ NewLabel
    \/ NewButton
    \/ SetVisible

SpecTree == Init /\ [][NextTree]_vars
\* One interactive widget inside a panel, after its construction, receiving
\* events while it is shown, hidden, enabled and disabled
Scene(k, cb, flag) ==
    LET s == Panel_init(Imported, 1, None)
    IN  IF k = "Button"
        THEN Button_init(s, 2, "Button", None, IF cb THEN "on_click" ELSE NoneCb,
                         ButtonSize, flag, None, "center", 1)
        ELSE IF k = "CheckBox"
        THEN CheckBox_init(s, 2, IF cb THEN "on_value_change" ELSE NoneCb,
                           FALSE, flag, "midleft", 1)
        ELSE InputBox_init(s, 2, IF cb THEN InputBoxHandlers ELSE {}, flag, <<>>, 1)

InitWidgets ==
    \E k \in InteractiveKinds, cb \in BOOLEAN, flag \in BOOLEAN :
        Holds(Scene(k, cb, flag), [name |-> k, obj |-> 2])

NextWidgets ==
    \/ SetVisible
    \/ SetDisabled
    \/ MouseMove
    \/ HandleOneEvent
    \/ Draw

SpecWidgets == InitWidgets /\ [][NextWidgets]_vars

\* The event manager: a Button and an InputBox listen, constructed in either
\* order; callbacks are configured and batches of events are dispatched
Listeners(first) ==
    IF first = "Button"
    THEN InputBox_init(Button_init(Imported, 1, "Button", None, "on_click", ButtonSize,
                                   FALSE, None, "center", None),
                       2, InputBoxHandlers, TRUE, <<>>, None)
    ELSE Button_init(InputBox_init(Imported, 1, InputBoxHandlers, TRUE, <<>>, None),
                     2, "Button", None, "on_click", ButtonSize, FALSE, None, "center", None)

InitEvents ==
    \E first \in {"Button", "InputBox"} :
        Holds(Listeners(first), [name |-> first, obj |-> 2])

NextEvents ==
    \/ SetEvents
    \/ AddEvent
    \/ HandleEvents

SpecEvents == InitEvents /\ [][NextEvents]_vars

\* Widgets of every class are constructed with the arguments that decide what
\* the constructor registers, owns and rejects
NextBuild ==
    \/ NewPanel
    \/ NewLabel
    \/ NewUiImage
    \/ NewButtonOf
    \/ NewCheckBox
    \/ NewInputBox

SpecBuild == Init /\ [][NextBuild]_vars

\* Buttons that own a label or an image: the sub-elements are constructed,
\* handed to buttons, scaled and tinted, and the scene is shown, hidden and
\* drawn
NextOwned ==
    \/ NewLabel
    \/ NewUiImage
    \/ NewButtonOf
    \/ SetImage
    \/ ScaleImage
    \/ TintImage
    \/ SetVisible
    \/ Draw

SpecOwned == Init /\ [][NextOwned]_vars

\* The persistence helper: one file that is absent, empty or unreadable when
\* the program starts, read and written through JsonSave
InitJson ==
    \E c \in {Absent, EmptyFile, Garbage} :
        Holds([Imported EXCEPT !.files = [f \in Paths |-> c]], [name |-> "import"])

NextJson ==
    \/ Save
    \/ Load
    \/ GetContents
    \/ SetContents
    \/ ClearContents
    \/ DeleteKey
    \/ DeleteFile

SpecJson == InitJson /\ [][NextJson]_vars

\* Scenes torn down by application states: graphics are constructed and
\* drawn, the registry is replaced, states are entered and left
NextStates ==
    \/ NewPanel
    \/ NewLabel
    \/ UpdateManagedObjects
    \/ EnterState
    \/ ExitState
    \/ Draw

SpecStates == Init /\ [][NextStates]_vars

\* One InputBox inside a panel: it is clicked, typed into, submitted by the
\* Return key and by the program, given a text, shown and hidden
InitInput ==
    \E cb \in BOOLEAN, flag \in BOOLEAN :
        Holds(Scene("InputBox", cb, flag), [name |-> "InputBox", obj |-> 2])

NextInput ==
    \/ HandleOneEvent
    \/ Submit
    \/ SetText
    \/ SetVisible

SpecInput == InitInput /\ [][NextInput]_vars

\* The parent relation: panels and labels are constructed under panels and
\* given other parents afterwards
NextParents ==
    \/ NewPanel
    \/ NewLabel
    \/ SetParent

SpecParents == Init /\ [][NextParents]_vars

\* A Button inside a panel inside a panel: the three objects are given other
\* parents, shown, hidden, drawn and sent events
InitCycles ==
    \E cb \in BOOLEAN :
        Holds(Button_init(Panel_init(Panel_init(Imported, 1, None), 2, 1), 3, "Button", None,
                          IF cb THEN "on_click" ELSE NoneCb, ButtonSize, FALSE, None,
                          "center", 2),
              [name |-> "Button", obj |-> 3])

NextCycles ==
    \/ SetParent
    \/ SetVisible
    \/ Draw
    \/ HandleOneEvent

SpecCycles == InitCycles /\ [][NextCycles]_vars

\* One interactive widget inside a panel while the scene is torn down: states
\* are entered and left, which empties the Canvas registry, and events keep
\* arriving
InitScenes ==
    \E k \in InteractiveKinds : Holds(Scene(k, TRUE, FALSE), [name |-> k, obj |-> 2])

NextScenes ==
    \/ EnterState
    \/ ExitState
    \/ HandleOneEvent

SpecScenes == InitScenes /\ [][NextScenes]_vars

\* A Circle constructed at some position and moved
InitShapes ==
    \E x \in Coordinates, y \in Coordinates :
        Holds([Imported EXCEPT !.position = <<x, y>>], [name |-> "Circle"])

NextShapes == Move

SpecShapes == InitShapes /\ [][NextShapes]_vars

\* The Math helpers applied to numbers
NextMath ==
    \/ Clamp
    \/ Lerp

SpecMath == Init /\ [][NextMath]_vars

\* User callbacks that raise: an InputBox, a Button and a CheckBox listen, in
\* that order, behind two free-form callbacks; at most one of the callables,
\* named by bad, raises
FaultChoices == {"none", "func1", "func2", "on_click", "CheckBox"} \cup DOMAIN Failing

Faulty(bad) ==
    LET s1 == InputBox_init(Imported, 1,
                  InputBoxHandlers \cup (IF bad \in DOMAIN Failing THEN {Failing[bad]} ELSE {}),
                  TRUE, <<>>, None)
        s2 == Button_init(s1, 2, "Button", None,
                  IF bad = "on_click" THEN "on_click_raises" ELSE "on_click",
                  ButtonSize, FALSE, None, "center", None)
        s3 == CheckBox_init(s2, 3,
                  IF bad = "CheckBox" THEN "on_value_change_raises" ELSE "on_value_change",
                  FALSE, FALSE, "midleft", None)
    IN  set_events(s3, CallBackList(<<IF bad = "func1" THEN "f_raises" ELSE "f1",
                                      IF bad = "func2" THEN "f_raises" ELSE "f2">>), NoneCb)

InitFaulty == \E bad \in FaultChoices : Holds(Faulty(bad), [name |-> "CheckBox", obj |-> 3])

NextFaulty ==
    \/ HandleEvents
    \/ HandleOneEvent

SpecFaulty == InitFaulty /\ [][NextFaulty]_vars

\* ------------------------------------------------------------ reading `calls`
IsUserCall(c) == c.fn \notin {"draw", "func", "handle_event", "on_quit"}
IsDispatch(c) == c.fn \in {"func", "handle_event"}
IsCanvasDraw(c) == c.fn = "draw" /\ c.by = None

UserCalls(cs) == SelectSeq(cs, IsUserCall)
Dispatches(cs) == SelectSeq(cs, IsDispatch)
CanvasDraws(cs) == SelectSeq(cs, IsCanvasDraw)

Handled == op.name = "handle_events"
IsLeft(e, type) == e.type = type /\ e.button = LEFT

\* ------------------------------------------------------------ C1
\* g and the panels above it: the objects reached from g in at most MaxObjs
\* parent steps
RECURSIVE Up(_, _)
Up(g, k) == IF k = 0 \/ g = None THEN g ELSE Up(parent[g], k - 1)
Chain(g) == {Up(g, k) : k \in 0..MaxObjs} \ {None}
ChainVisible(g) == \A a \in Chain(g) : visible[a]

RenderedIsChainVisible ==
    \A g \in Constructed(S) : is_rendered(S, g) = ChainVisible(g)

\* A step that writes the visible flag of a panel a above g, and nothing else
\* of g's chain
AncestorToggled(a, g) ==
    /\ a \in Chain(g) \ {g}
    /\ parent' = parent
    /\ visible'[a] # visible[a]
    /\ \A b \in Chain(g) \ {a} : visible'[b] = visible[b]

AncestorToggleShows ==
    \A g \in Constructed(S), a \in Constructed(S) :
        AncestorToggled(a, g) =>
            /\ visible'[g] = visible[g]
            /\ is_rendered(S', g) = (\A b \in Chain(g) : visible'[b])
            /\ (\A b \in Chain(g) \ {a} : visible[b]) =>
                   is_rendered(S', g) # is_rendered(S, g)

\* C1: is_rendered of every Graphic equals the conjunction of the visible
\* flags of the Graphic and of every Panel on its parent chain, and a step
\* that sets the visible flag of a panel on the chain leaves g.visible alone
\* and is reflected by is_rendered at once: it changes is_rendered(g) whenever
\* every other flag of the chain is set.
C1_RenderedFollowsChain == [] RenderedIsChainVisible /\ [][AncestorToggleShows]_vars

\* A visible Graphic under a visible panel is not rendered right after the
\* panel above that panel was hidden.
C1_Witness ==
    \E g \in Constructed(S) :
        /\ parent[g] # None /\ parent[parent[g]] # None
        /\ visible[g] /\ visible[parent[g]] /\ ~ visible[parent[parent[g]]]
        /\ op.name = "set_visible" /\ op.obj = parent[parent[g]]
        /\ ~ is_rendered(S, g)

\* ------------------------------------------------------------ C2
RenderedNow(g) == is_rendered(S, g)
Objs(cs) == [i \in 1..Len(cs) |-> cs[i].obj]
DrawnByCanvas == Objs(CanvasDraws(calls))
NoRepeat(seq) == \A i, j \in 1..Len(seq) : i # j => seq[i] # seq[j]

\* C2 as amended: one Canvas.draw call invokes draw on the entries of
\* Canvas.graphic_elements whose is_rendered is true, in registry order, once
\* for every entry, and on nothing else.
C2_DrawsRenderedEntries ==
    op.name = "draw" => DrawnByCanvas = SelectSeq(graphic_elements, RenderedNow)

\* C2 as stated: in addition no element is drawn twice by one Canvas.draw.
C2_DrawsEachOnce ==
    op.name = "draw" =>
        /\ DrawnByCanvas = SelectSeq(graphic_elements, RenderedNow)
        /\ NoRepeat(DrawnByCanvas)

\* A draw that draws two elements, skips a registered hidden one, while a
\* constructed element is out of the registry.
C2_Witness ==
    /\ op.name = "draw"
    /\ Len(DrawnByCanvas) >= 2
    /\ \E g \in Range(graphic_elements) : ~ RenderedNow(g)
    /\ \E g \in Constructed(S) : g \notin Range(graphic_elements)
\* ------------------------------------------------------------ C3
UpLeft == Handled /\ Len(op.events) = 1 /\ IsLeft(op.events[1], "MOUSEBUTTONUP")
Inside(g) == collidepoint(rect[g], mouse_pos)
Clicked(g) == \E i \in DOMAIN calls :
                 IsUserCall(calls[i]) /\ calls[i].obj = g /\ calls[i].fn = func[g]
Clickable(g) == g \in Constructed(S) /\ kind[g] \in ButtonKinds /\ func[g] # NoneCb

\* C3 as amended: when a left mouse-up is dispatched to a Button, on_click
\* fires if and only if the pointer position pygame.mouse.get_pos() reports
\* while the event is handled is inside the rectangle, the button is not
\* disabled and the button's is_rendered is true, wherever a mouse-down
\* occurred before.
C3_ClickIffInsideEnabledRendered ==
    \A g \in Ids : (Clickable(g) /\ UpLeft) =>
        (Clicked(g) <=> (Inside(g) /\ ~ disabled[g] /\ is_rendered(S, g)))

\* C3 as stated: on_click fires if and only if the pointer is inside the
\* rectangle and the button is not disabled at the up event.
C3_ClickIffInsideEnabled ==
    \A g \in Ids : (Clickable(g) /\ UpLeft) =>
        (Clicked(g) <=> (Inside(g) /\ ~ disabled[g]))

\* A click fired by a mouse-up on a button that no mouse-down has pressed
\* since it was constructed (its color is still the one the constructor set).
C3_Witness ==
    \E g \in Ids : /\ Clickable(g) /\ UpLeft /\ Clicked(g)
                   /\ current_color[g] = "disabled_color"

\* ------------------------------------------------------------ C4
ValueChanges(cs, g) ==
    LET Test(c) == c.fn = "on_value_change" /\ c.obj = g
    IN  SelectSeq(cs, Test)

CheckBoxStep ==
    \A g \in Constructed(S) : kind[g] = "CheckBox" =>
        LET cbs == ValueChanges(calls', g)
        IN  /\ cbs # <<>> =>
                  /\ Len(cbs) = 1
                  /\ cbs[1].flag = ~ is_on[g]
                  /\ cbs[1].seen.is_on = cbs[1].flag
                  /\ is_on'[g] = cbs[1].flag
            /\ is_on'[g] # is_on[g] =>
                  /\ op'.name = "handle_events"
                  /\ IsLeft(op'.events[1], "MOUSEBUTTONUP")
                  /\ func[g] # NoneCb => cbs # <<>>

\* C4: a click on a CheckBox negates is_on before the user callback runs and
\* passes the new value to it, and nothing but a click changes is_on; so two
\* clicks in a row restore is_on, and the argument of a click is the negation
\* of the argument of the click before it.
C4_ClickTogglesThenCalls == [][CheckBoxStep]_vars

\* The second click on a CheckBox constructed off: the callback gets FALSE.
C4_Witness ==
    \E g \in Constructed(S) :
        /\ kind[g] = "CheckBox" /\ UpLeft
        /\ Len(ValueChanges(calls, g)) = 1
        /\ ValueChanges(calls, g)[1].flag = FALSE
        /\ ~ is_on[g]

\* ------------------------------------------------------------ C5, C6
\* A step that dispatches one key-down to an active, rendered InputBox g
KeyTo(g) ==
    /\ kind[g] = "InputBox" /\ active[g] /\ is_rendered(S, g)
    /\ op'.name = "handle_events" /\ Len(op'.events) = 1
    /\ op'.events[1].type = "KEYDOWN"

IsPrefixShortBy(short, long, k) ==
    /\ Len(short) = Max(Len(long) - k, 0)
    /\ \A i \in 1..Len(short) : short[i] = long[i]

TypingStep ==
    \A g \in Constructed(S) : KeyTo(g) =>
        LET e == op'.events[1]
        IN  /\ e.key \in Chars => text'[g] = Append(text[g], e.key)
            /\ e.key = "K_BACKSPACE" => IsPrefixShortBy(text'[g], text[g], 1)

\* C5: a character key-down dispatched to an active, rendered InputBox
\* appends the character to text, so that keys c1..cn turn text t into
\* t + c1 + ... + cn, and a Backspace key-down removes exactly the last
\* character and leaves the empty text empty.
C5_TypingAppendsBackspaceDrops == [][TypingStep]_vars

\* Backspace has just taken the second of two typed characters away.
C5_Witness ==
    \E g \in Constructed(S) :
        /\ kind[g] = "InputBox" /\ Handled /\ op.events[1].key = "K_BACKSPACE"
        /\ active[g] /\ text[g] = <<"a">>
        /\ \E i \in DOMAIN calls : calls[i].fn = "on_delete" /\ calls[i].text = <<"a", "b">>

ReturnStep ==
    \A g \in Constructed(S) : (KeyTo(g) /\ op'.events[1].key = "K_RETURN") =>
        LET ucs == UserCalls(calls')
        IN  IF submit_on_return[g]
            THEN /\ "on_submit" \in handlers[g] =>
                        /\ Len(ucs) = 1
                        /\ ucs[1].fn = "on_submit" /\ ucs[1].obj = g
                        /\ ucs[1].text = text[g]
                 /\ "on_submit" \notin handlers[g] => ucs = <<>>
                 /\ text'[g] = <<>>
                 /\ ~ active'[g]
                 /\ border_color'[g] = "border_color_inactive"
            ELSE /\ text'[g] = text[g]
                 /\ active'[g] = active[g]
                 /\ ucs = <<>>

\* C6: a Return key-down dispatched to an active, rendered InputBox with
\* submit_on_return calls on_submit once with the text held before, and then
\* text is empty, active is false and the border has the inactive color;
\* without submit_on_return it changes neither text nor active and calls
\* nothing.
C6_ReturnSubmits == [][ReturnStep]_vars

\* Return has submitted a typed text of two characters.
C6_Witness ==
    \E g \in Constructed(S) :
        /\ kind[g] = "InputBox" /\ Handled /\ op.events[1].key = "K_RETURN"
        /\ Len(UserCalls(calls)) = 1
        /\ UserCalls(calls)[1].fn = "on_submit"
        /\ Len(UserCalls(calls)[1].text) = 2
        /\ text[g] = <<>> /\ ~ active[g]

\* ------------------------------------------------------------ C9
Ignoring(g) ==
    \/ kind[g] \in ButtonKinds /\ (disabled[g] \/ ~ is_rendered(S, g))
    \/ kind[g] = "InputBox" /\ ~ is_rendered(S, g)

IgnoredStep ==
    \A g \in Constructed(S) : (Ignoring(g) /\ op'.name = "handle_events") =>
        /\ pressed'[g] = pressed[g] /\ current_color'[g] = current_color[g]
        /\ is_on'[g] = is_on[g] /\ active'[g] = active[g]
        /\ text'[g] = text[g] /\ image'[g] = image[g]
        /\ border_color'[g] = border_color[g] /\ rect'[g] = rect[g]
        /\ \A i \in DOMAIN calls' : IsUserCall(calls'[i]) => calls'[i].obj # g

\* C9: handle_event on a Button or CheckBox that is disabled or not rendered,
\* and on an InputBox that is not rendered, changes no field of the widget
\* and calls no user callback, whatever the event.
C9_IgnoresWhenDisabledOrHidden == [][IgnoredStep]_vars

\* A left mouse-up inside a visible, disabled button was dispatched to it and
\* fired nothing.
C9_Witness ==
    \E g \in Ids :
        /\ Clickable(g) /\ UpLeft /\ Inside(g) /\ disabled[g] /\ is_rendered(S, g)
        /\ \E i \in DOMAIN calls : calls[i].fn = "handle_event" /\ calls[i].obj = g
        /\ UserCalls(calls) = <<>>

\* ------------------------------------------------------------ C7, C8
IsQuit(e) == e.type = "QUIT"
QuitDrained == Handled /\ \E i \in DOMAIN op.events : IsQuit(op.events[i])
\* index of the first quit event of the batch, or one past its end
FirstQuit == IF QuitDrained
             THEN CHOOSE i \in DOMAIN op.events :
                      IsQuit(op.events[i]) /\ \A j \in 1..(i - 1) : ~ IsQuit(op.events[j])
             ELSE Len(op.events) + 1
PerEvent == Len(funcs) + Len(graphic_events)
DispatchesOf(n) ==
    LET Test(c) == IsDispatch(c) /\ c.n = n
    IN  SelectSeq(calls, Test)

\* C7: handle_events serves the drained events in queue order; for every
\* event before a quit it calls every free-form callback in registration
\* order and then handle_event of every registered listener in registration
\* order, and every call made for an event precedes every call made for the
\* next one.
C7_DispatchOrder ==
    Handled =>
        LET d == Dispatches(calls)
        IN  /\ Len(d) = (FirstQuit - 1) * PerEvent
            /\ \A j \in 1..Len(d) :
                  LET n == ((j - 1) \div PerEvent) + 1
                      r == ((j - 1) % PerEvent) + 1
                  IN  /\ d[j].n = n
                      /\ d[j].ev = op.events[n]
                      /\ IF r <= Len(funcs)
                         THEN d[j].fn = "func" /\ d[j].cb = funcs[r]
                         ELSE /\ d[j].fn = "handle_event"
                              /\ d[j].obj = graphic_events[r - Len(funcs)]
            /\ \A i, j \in DOMAIN calls :
                  (i < j /\ calls[i].fn # "on_quit" /\ calls[j].fn # "on_quit") =>
                      calls[i].n <= calls[j].n

\* Two events went to two different callbacks and the two listeners.
C7_Witness ==
    /\ Handled /\ Len(op.events) = 2 /\ ~ QuitDrained
    /\ Len(funcs) = 2 /\ funcs[1] # funcs[2]
    /\ Len(Dispatches(calls)) = 8
    /\ UserCalls(calls) # <<>>

\* C8: a quit event makes handle_events call on_quit once, when it is set,
\* and leave the process; nothing is called for the quit event or for an
\* event after it, and every event before it was dispatched in full. The
\* process is left in no other way.
C8_QuitStops ==
    /\ exited <=> QuitDrained
    /\ QuitDrained =>
          LET IsQuitCall(c) == c.fn = "on_quit"
              qs == SelectSeq(calls, IsQuitCall)
          IN  /\ Len(qs) = (IF on_quit # NoneCb THEN 1 ELSE 0)
              /\ on_quit # NoneCb => calls[Len(calls)].fn = "on_quit"
              /\ \A i \in DOMAIN calls :
                    calls[i].fn # "on_quit" => calls[i].n < FirstQuit
              /\ \A n \in 1..(FirstQuit - 1) : Len(DispatchesOf(n)) = PerEvent

\* A quit event followed by another event in the batch, with callbacks and a
\* quit handler registered: on_quit is the only call.
C8_Witness ==
    /\ QuitDrained /\ FirstQuit < Len(op.events)
    /\ on_quit # NoneCb /\ funcs # <<>>
    /\ Len(calls) = 1 /\ exited

\* ------------------------------------------------------------ C10
\* C10 as stated: after set_events(call_backs, on_quit), funcs holds exactly
\* the callbacks passed in the call (none when call_backs is omitted or
\* empty) and on_quit is the handler passed in the call.
C10_SetEventsReplaces ==
    op.name = "set_events" => (funcs = op.call_backs.fs /\ on_quit = op.on_quit)

\* ------------------------------------------------------------ C11
AddEventStep ==
    op'.name = "add_event" =>
        /\ funcs' = Append(funcs, op'.call_back)
        /\ on_quit' = on_quit
        /\ graphic_events' = graphic_events

\* C11: add_event(cb) makes cb the last element of funcs, keeps the callbacks
\* that were registered before in their order, and leaves on_quit and
\* graphic_events as they were, whatever set_events and add_event calls came
\* before.
C11_AddEventAppends == [][AddEventStep]_vars

\* A second, different callback was added after set_events had installed one
\* callback and a quit handler.
C11_Witness ==
    /\ op.name = "add_event" /\ Len(funcs) > 1
    /\ funcs[Len(funcs)] = op.call_back /\ funcs[1] # op.call_back
    /\ on_quit # NoneCb

\* ------------------------------------------------------------ C12
\* seq without its entry at index i
Without(seq, i) == SubSeq(seq, 1, i - 1) \o SubSeq(seq, i + 1, Len(seq))

RemoveStep ==
    op'.name = "remove_managed_object" =>
        LET g == op'.obj
            ge == graphic_elements
        IN  IF \E i \in DOMAIN ge : ge[i] = g
            THEN /\ raised' = ""
                 /\ \E i \in DOMAIN ge :
                       /\ ge[i] = g
                       /\ \A j \in 1..(i - 1) : ge[j] # g
                       /\ graphic_elements' = Without(ge, i)
            ELSE /\ raised' = "ValueError"
                 /\ graphic_elements' = ge

\* C12: remove_managed_object(g) takes the first entry equal to g out of the
\* registry and keeps every other entry, later entries equal to g included,
\* in its order; when g is not in the registry the call ends with an error
\* and the registry is as before.
C12_RemoveFirstOrFail == [][RemoveStep]_vars

\* g was registered twice in front of another element; one remove left one g
\* in front of that element.
C12_Witness ==
    /\ op.name = "remove_managed_object" /\ raised = ""
    /\ Len(graphic_elements) > 1
    /\ graphic_elements[1] = op.obj /\ graphic_elements[Len(graphic_elements)] # op.obj

\* ------------------------------------------------------------ C13
Constructors == {"Panel", "Label", "UiImage", "Button", "CheckBox", "InputBox"}

ReplaceStep ==
    /\ op'.name = "update_managed_objects" => graphic_elements' = op'.graphics
    /\ (op'.name = "exit_state" /\ state_stack # <<>>) => graphic_elements' = <<>>
    /\ (graphic_elements = <<>> /\ op'.name \notin Constructors
            /\ op'.name # "update_managed_objects") =>
           /\ graphic_elements' = <<>>
           /\ op'.name = "draw" => calls' = <<>>

\* C13: update_managed_objects(L) makes the registry exactly L in one step;
\* exit_state on a non-empty state stack leaves the registry empty, and from
\* an empty registry every step that neither constructs a Graphic nor
\* installs a list keeps it empty, a Canvas.draw among them drawing nothing.
C13_ReplaceSwapsRegistry == [][ReplaceStep]_vars

\* A state was left while another stays on the stack: two constructed,
\* visible elements are out of the registry.
C13_Witness ==
    /\ op.name = "exit_state" /\ state_stack # <<>>
    /\ graphic_elements = <<>>
    /\ \E g, h \in Constructed(S) : g # h /\ is_rendered(S, g) /\ is_rendered(S, h)

\* ------------------------------------------------------------ C14
\* number of entries of seq equal to x
Count(seq, x) == Cardinality({i \in DOMAIN seq : seq[i] = x})

\* g was handed to a Button constructor as its label or image, which takes it
\* out of the Canvas registry
Owners(g) == {b \in Constructed(S) : label[b] = g \/ button_image[b] = g}

ConstructStep ==
    op'.name \in Constructors =>
        LET g == op'.obj
        IN  /\ Count(graphic_elements, g) = 0
            /\ Count(graphic_elements', g) = 1
            /\ graphic_elements'[Len(graphic_elements')] = g
            /\ graphic_events' = IF op'.name \in InteractiveKinds
                                 THEN Append(graphic_events, g) ELSE graphic_events

RegisteredOnce ==
    \A g \in Constructed(S) :
        /\ Count(graphic_elements, g) = (IF Owners(g) = {} THEN 1 ELSE 0)
        /\ Count(graphic_events, g) = (IF kind[g] \in InteractiveKinds THEN 1 ELSE 0)

\* C14: the constructor of every widget class appends the new widget to
\* Canvas.graphic_elements once, and the constructor of a Button, CheckBox or
\* InputBox appends it to EventManager.graphic_events once as well and no
\* other constructor touches that list; so, as long as nothing is
\* deregistered or replaced, every constructed widget is in
\* Canvas.graphic_elements exactly once (a Label or UiImage that a Button
\* constructor took as its sub-element is the one it deregisters) and every
\* interactive widget is in EventManager.graphic_events exactly once.
C14_ConstructorsRegisterOnce == [] RegisteredOnce /\ [][ConstructStep]_vars

\* Three widgets were constructed without an error, two of them interactive,
\* none owned by a button.
C14_Witness ==
    /\ op.name \in InteractiveKinds /\ raised = ""
    /\ Len(graphic_elements) = MaxObjs
    /\ Len(graphic_events) > 1 /\ Len(graphic_events) < Len(graphic_elements)

\* ------------------------------------------------------------ C15
\* draw calls made on g by one Canvas.draw
DrawsOf(g) ==
    LET Test(c) == c.fn = "draw" /\ c.obj = g
    IN  SelectSeq(calls, Test)

\* C15 as stated: a Label or UiImage that a Button was constructed with is out
\* of the Canvas registry while the Button is in it, and one Canvas.draw draws
\* it exactly once, from the draw of its Button, when the Button is rendered
\* and not at all when it is not.
C15_SubElementDrawnOnceByOwner ==
    op.name = "draw" =>
        \A g \in Constructed(S) : \A b \in Owners(g) :
            /\ g \notin Range(graphic_elements)
            /\ b \in Range(graphic_elements)
            /\ Len(DrawsOf(g)) = (IF is_rendered(S, b) THEN 1 ELSE 0)
            /\ \A i \in DOMAIN DrawsOf(g) : DrawsOf(g)[i].by = b

\* ------------------------------------------------------------ C16
Untinted(surface) == [surface EXCEPT !.tints = <<>>]

\* C16 as stated: the preserved original of a UiImage is never tinted, the
\* displayed image is that original with at most one tint on it, and after
\* tint_image(c) it is the original at the current size with c alone.
C16_TintNeverCompounds ==
    \A g \in Constructed(S) : kind[g] = "UiImage" =>
        /\ og_image_surface[g].tints = <<>>
        /\ Len(image_surface[g].tints) <= 1
        /\ (op.name = "tint_image" /\ op.obj = g) =>
               image_surface[g] = fill(Untinted(image_surface[g]), op.color)

\* ------------------------------------------------------------ C17
\* C17 as stated: a Button or CheckBox constructor given a label_alignment
\* ends with AlignmentNotSupportedError if and only if the alignment is not
\* one of the nine anchor names (a constructor that already failed on the
\* registry aside).
C17_OnlyAnchorsAccepted ==
    (op.name \in ButtonKinds /\ raised # "ValueError") =>
        (raised = "AlignmentNotSupportedError" <=> op.label_alignment \notin Alignments)

\* ------------------------------------------------------------ C18, C19, C20
\* the dict {key: value}
Only(key, value) == Dict([k \in JsonKeys |-> IF k = key THEN value ELSE Missing])

\* Values Python takes for false
ZeroLike == {PyNone, PyInt(0), Value("list", 0), Value("tuple", 0), EmptyDict}

\* Values that are read back from a file as they were written
ReadBackEqual(v) == json_load(json_dump(v)) = v

\* A load of the key that the step before has saved, in the same file
LoadAfterSave ==
    /\ op.name = "save" /\ op'.name = "load"
    /\ op'.path = op.path /\ op'.key = op.key

LoadOfMissingFile ==
    (op'.name = "load" /\ files[op'.path] = Absent) =>
        /\ raised' = ""
        /\ returned' = op'.value
        /\ files'[op'.path].kind = "json"
        /\ json_load(files'[op'.path].json) = Only(op'.key, op'.value)

C20_CorruptTreatedAsAbsent ==
    (op.name \in {"load", "save", "get_contents"}
        /\ op.before.kind \in {"empty", "garbage"}) =>
        /\ raised = ""
        /\ op.name = "get_contents" => returned = EmptyDict
        /\ op.name = "save" => files[op.path] = Text(json_dump(Only(op.key, op.value)))
        /\ op.name = "load" =>
               /\ returned = op.value
               /\ files[op.path] = Text(json_dump(Only(op.key, op.value)))

\* ------------------------------------------------------------ C21
\* The call is one of a callable that raises
Failed(c) ==
    \/ c.fn = "func" /\ c.cb \in Raising
    \/ IsUserCall(c) /\ c.fn \in Raising
    \/ IsUserCall(c) /\ kind[c.obj] = "InputBox" /\ Failing[c.fn] \in handlers[c.obj]

\* C21: an error raised by a free-form callback, an on_click, an
\* on_value_change or an InputBox callback leaves handle_events as it was
\* raised: the call that raised is the last call handle_events makes, for this
\* event and for every later event of the batch, and handle_events ends with
\* an error exactly when one of the callables it called raised.
C21_CallbackErrorPropagates ==
    Handled =>
        /\ \A i \in DOMAIN calls :
               Failed(calls[i]) => (i = Len(calls) /\ raised = "CallbackError")
        /\ raised = "CallbackError" => (calls # <<>> /\ Failed(calls[Len(calls)]))
        /\ raised \in {"", "CallbackError", "SystemExit"}

\* on_click raised for the first of two events: the CheckBox registered
\* behind the Button saw neither event, and no callback ran for the second.
C21_Witness ==
    /\ Handled /\ Len(op.events) = 2 /\ raised = "CallbackError"
    /\ calls[Len(calls)].fn = "on_click_raises" /\ calls[Len(calls)].n = 1
    /\ Len(graphic_events) = 3 /\ graphic_events[3] # calls[Len(calls)].obj
    /\ \A i \in DOMAIN calls : calls[i].obj # graphic_events[3] /\ calls[i].n = 1

\* ------------------------------------------------------------ C22
\* The states of a stack other than st, in order
OthersOf(stack, st) == SelectSeq(stack, LAMBDA x : x # st)

\* C22 as stated: exit_state called on state s with a non-empty stack takes s
\* off the stack, wherever s is in it, and keeps every other state in its
\* order; when s is not on the stack no other state leaves it.
C22_ExitRemovesThisState ==
    [][(op'.name = "exit_state" /\ state_stack # <<>>) =>
          /\ OthersOf(state_stack', op'.state) = OthersOf(state_stack, op'.state)
          /\ Count(state_stack, op'.state) > 0 =>
                 Count(state_stack', op'.state) = Count(state_stack, op'.state) - 1]_vars

\* ------------------------------------------------------------ C23
\* C23 as stated: move with at least one axis given puts the circle at the
\* given coordinates, 0 among them, and an axis left out keeps its value.
C23_MoveSetsGivenAxes ==
    (op.name = "move" /\ (op.x # PyNone \/ op.y # PyNone)) =>
        /\ raised = ""
        /\ position[1] = (IF op.x = PyNone THEN op.before[1] ELSE op.x.n)
        /\ position[2] = (IF op.y = PyNone THEN op.before[2] ELSE op.y.n)

\* ------------------------------------------------------------ C24
\* C24 as stated: clamp returns a value between min_value and max_value, the
\* value itself when it lies between them, whatever the order of the two
\* limits; lerp returns a for t <= 0 and b for t >= 1.
C24_ClampAndLerpEnds ==
    /\ op.name = "clamp" =>
           /\ op.min_value <= returned.n /\ returned.n <= op.max_value
           /\ (op.min_value <= op.value /\ op.value <= op.max_value) =>
                  returned.n = op.value
    /\ op.name = "lerp" =>
           /\ op.t <= 0 => returned.n = op.a
           /\ op.t >= 1 => returned.n = op.b

\* ------------------------------------------------------------ C25
\* The step draws button g
Drawn(g) == op'.name = "draw" /\ \E i \in DOMAIN calls' :
                                    calls'[i].fn = "draw" /\ calls'[i].obj = g

HoverStep ==
    \A g \in Constructed(S) : (kind[g] \in ButtonKinds /\ Drawn(g)) =>
        IF disabled[g] \/ pressed[g]
        THEN current_color'[g] = current_color[g]
        ELSE current_color'[g] = (IF collidepoint(rect[g], mouse_pos)
                                  THEN "hover_color" ELSE "color")

\* C25: a draw of a button that is neither disabled nor pressed leaves it with
\* the hover color when the pointer is inside its rectangle and with the
\* normal color when it is not; a draw of a disabled or pressed button leaves
\* its current color as it was.
C25_HoverRecomputedOnDraw == [][HoverStep]_vars

\* The pointer was moved onto a released button, and the draw gave it the
\* hover color.
C25_Witness ==
    \E g \in Constructed(S) :
        /\ kind[g] = "Button" /\ op.name = "draw" /\ DrawsOf(g) # <<>>
        /\ mouse_pos # Origin /\ ~ pressed[g] /\ ~ disabled[g]
        /\ current_color[g] = "hover_color"

\* ------------------------------------------------------------ C26
\* User callbacks a step makes for widget g
CallsFor(g) ==
    LET Test(c) == IsUserCall(c) /\ c.obj = g
    IN  SelectSeq(calls', Test)

PressStep ==
    \A g \in Constructed(S) :
        (kind[g] \in ButtonKinds /\ op'.name = "handle_events" /\ Len(op'.events) = 1) =>
            LET e == op'.events[1]
            IN  /\ (IsLeft(e, "MOUSEBUTTONDOWN") /\ Inside(g) /\ ~ disabled[g]
                        /\ is_rendered(S, g)) =>
                       /\ pressed'[g] /\ current_color'[g] = "pressed_color"
                       /\ CallsFor(g) = <<>>
                /\ IsLeft(e, "MOUSEBUTTONUP") =>
                       \A i \in DOMAIN CallsFor(g) : ~ CallsFor(g)[i].seen.pressed
                /\ (e.type \in {"MOUSEBUTTONDOWN", "MOUSEBUTTONUP"} /\ e.button # LEFT) =>
                       /\ pressed'[g] = pressed[g] /\ current_color'[g] = current_color[g]
                       /\ is_on'[g] = is_on[g] /\ disabled'[g] = disabled[g]
                       /\ CallsFor(g) = <<>>

\* C26: a left mouse-down with the pointer inside an enabled, rendered button
\* sets pressed and the pressed color and calls nothing; the click callback of
\* a left mouse-up runs with pressed already false; a mouse event of another
\* button changes nothing of the button and calls nothing.
C26_PressThenClickAfterRelease == [][PressStep]_vars

\* A pressed button was released by a left mouse-up inside it: the click ran,
\* saw pressed false, and the pressed color is still shown.
C26_Witness ==
    \E g \in Ids :
        /\ Clickable(g) /\ UpLeft /\ Clicked(g)
        /\ current_color[g] = "pressed_color" /\ ~ pressed[g]
        /\ \A i \in DOMAIN calls : IsUserCall(calls[i]) => ~ calls[i].seen.pressed

\* ------------------------------------------------------------ C27
SelectsOf(g) ==
    LET Test(c) == c.fn = "on_select" /\ c.obj = g
    IN  SelectSeq(calls', Test)

SelectStep ==
    \A g \in Constructed(S) :
        (kind[g] = "InputBox" /\ is_rendered(S, g) /\ op'.name = "handle_events"
            /\ Len(op'.events) = 1 /\ op'.events[1].type = "MOUSEBUTTONDOWN") =>
            IF collidepoint(rect[g], op'.events[1].pos)
            THEN /\ "on_select" \in handlers[g] =>
                        /\ Len(SelectsOf(g)) = 1
                        /\ SelectsOf(g)[1].seen.active = active[g]
                 /\ active'[g] = ~ active[g]
            ELSE /\ SelectsOf(g) = <<>>
                 /\ ~ active'[g]

\* C27: a mouse-down inside the rectangle of a rendered InputBox calls
\* on_select once, whether the box was active or not, while active still has
\* its old value, and then negates active; a mouse-down outside the rectangle
\* leaves active false and calls no on_select.
C27_SelectOnEveryInsideClick == [][SelectStep]_vars

\* A click inside an active InputBox: on_select ran while active was true,
\* and the box is inactive now.
C27_Witness ==
    \E g \in Constructed(S) :
        /\ kind[g] = "InputBox" /\ Handled /\ op.events[1].type = "MOUSEBUTTONDOWN"
        /\ ~ active[g] /\ border_color[g] = "border_color_inactive"
        /\ \E i \in DOMAIN calls :
              calls[i].fn = "on_select" /\ calls[i].obj = g /\ calls[i].seen.active

\* ------------------------------------------------------------ C28
\* C28: after the construction of an InputBox and after every handle_event
\* and submit() since, border_color is the active color when active is true
\* and the inactive color when it is false.
C28_BorderFollowsActive ==
    \A g \in InputBoxes(S) :
        border_color[g] = (IF active[g] THEN "border_color_active"
                           ELSE "border_color_inactive")

\* The program submitted an active box with a typed text: on_submit saw the
\* box active, and the border is inactive now.
C28_Witness ==
    \E g \in InputBoxes(S) :
        /\ op.name = "submit" /\ op.obj = g
        /\ ~ active[g] /\ border_color[g] = "border_color_inactive"
        /\ Len(calls) = 1 /\ calls[1].fn = "on_submit"
        /\ calls[1].seen.active /\ calls[1].text # <<>>

\* ------------------------------------------------------------ C29
\* C29 as stated: on_value_change gets the text with the typed character at
\* its end and on_delete the text without the character Backspace removed:
\* both get the text the box holds after the key.
C29_CallbacksGetNewText ==
    \A g \in InputBoxes(S) :
        (Handled /\ Len(op.events) = 1 /\ op.events[1].type = "KEYDOWN") =>
            \A i \in DOMAIN calls :
                (calls[i].obj = g /\ calls[i].fn \in {"on_value_change", "on_delete"}) =>
                    calls[i].text = text[g]

\* ------------------------------------------------------------ C30
\* C30 as stated: the image of an InputBox is rendered from the text it
\* holds, after a character key, Backspace, a submit by Return, a submit()
\* call and set_text.
C30_ImageShowsText ==
    \A g \in InputBoxes(S) : image[g] = text[g]

\* ------------------------------------------------------------ C31
\* C31 as stated: the child_elements of every panel holds the Graphics whose
\* parent is the panel, each once, and nothing else.
C31_ChildrenAreThoseWithParent ==
    \A p \in Panels(S) : \A g \in Ids :
        Count(child_elements[p], g) = (IF g \in Constructed(S) /\ parent[g] = p THEN 1 ELSE 0)

\* ------------------------------------------------------------ C32
\* C32 as stated: enter_state puts the state on top of the stack, and when
\* the stack held a state before, one state alone included, prev_state of the
\* entering state is the state that was on top.
C32_EnterRecordsPrevious ==
    [][op'.name = "enter_state" =>
          /\ state_stack' = Append(state_stack, op'.state)
          /\ state_stack # <<>> =>
                 prev_state'[op'.state] = state_stack[Len(state_stack)]]_vars

\* ------------------------------------------------------------ C33
\* A save, or a load, of a file that parses
RewriteOfParseable ==
    /\ op'.name \in {"save", "load"}
    /\ files[op'.path].kind = "json"

LeftByJsonSave ==
    \/ op.name = "clear_contents"
    \/ op.name = "get_contents" /\ op.before = Absent
    \/ /\ op.name = "delete_key" /\ raised = ""
       /\ \A k \in JsonKeys \ {op.key} : op.before.json.items[k] = Missing

\* C34 as stated: a load that follows clear_contents, a get_contents that
\* created the file, or a delete_key of the last key returns the default and
\* stores it, without an error.
C34_LoadReadsWhatJsonSaveLeft ==
    [][(LeftByJsonSave /\ op'.name = "load" /\ op'.path = op.path) =>
          /\ raised' = ""
          /\ returned' = op'.value
          /\ files'[op'.path] = Text(json_dump(Only(op'.key, op'.value)))]_vars

\* ------------------------------------------------------------ C35
\* C35 as stated: a Button constructor that ends with an error leaves
\* Canvas.graphic_elements and EventManager.graphic_events as they were
\* before it was called.
C35_FailedConstructorRegistersNothing ==
    [][(op'.name \in ButtonKinds /\ raised' # "") =>
          /\ graphic_elements' = graphic_elements
          /\ graphic_events' = graphic_events]_vars

\* ------------------------------------------------------------ C36
\* C36 as stated: whatever parents the constructors and set_parent have given
\* the objects, a panel that is its own parent included, Canvas.draw and
\* EventManager.handle_events return: neither ends with the RecursionError of
\* an is_rendered that never reaches an object without a parent.
C36_DrawAndDispatchReturn ==
    [][op'.name \in {"draw", "handle_events"} => raised' # "RecursionError"]_vars

\* ------------------------------------------------------------ C37
\* Widget g reacts to a handle_events step: one of its fields changes or one
\* of its user callbacks is called
Reacts(g) ==
    /\ op'.name = "handle_events"
    /\ \/ pressed'[g] # pressed[g]
       \/ current_color'[g] # current_color[g]
       \/ is_on'[g] # is_on[g]
       \/ active'[g] # active[g]
       \/ text'[g] # text[g]
       \/ border_color'[g] # border_color[g]
       \/ CallsFor(g) # <<>>

\* C37 as stated: an interactive widget that changes state or fires a callback
\* in EventManager.handle_events is in Canvas.graphic_elements with
\* is_rendered true; after Canvas.update_managed_objects([]) or exit_state the
\* widgets of the dropped scene do not react to events.
C37_OnlyDrawnWidgetsReact ==
    [][\A g \in Constructed(S) :
          (kind[g] \in InteractiveKinds /\ Reacts(g)) =>
              (g \in Range(graphic_elements) /\ is_rendered(S, g))]_vars

\* ------------------------------------------------------------ C38
\* C38 as stated: a Button's current color matches its state. It is
\* disabled_color exactly when the button is disabled; for an enabled button
\* it is pressed_color while pressed and the normal or the hover color
\* otherwise.
C38_ColorMatchesState ==
    \A g \in Constructed(S) :
        kind[g] \in ButtonKinds =>
            /\ (current_color[g] = "disabled_color") <=> disabled[g]
            /\ (~ disabled[g] /\ pressed[g]) => current_color[g] = "pressed_color"
            /\ (~ disabled[g] /\ ~ pressed[g]) => current_color[g] \in {"color", "hover_color"}

\* ------------------------------------------------------------ C39
\* C39 as stated: once handle_events has dispatched a left mouse-up event the
\* pressed flag of every Button is false, whatever set_disabled calls and
\* visibility changes came between the press and the release.
C39_ReleasedAfterLeftMouseUp ==
    [][(op'.name = "handle_events" /\ Len(op'.events) = 1
            /\ IsLeft(op'.events[1], "MOUSEBUTTONUP")) =>
          \A g \in Constructed(S) : kind[g] \in ButtonKinds => ~ pressed'[g]]_vars
====
